---- MODULE Spec2Model ----
(***************************************************************************)
(* Phased-in (minimal binary) codes: parameter derivation, the symbol      *)
(* encoder and its table, the bit-stream packer with its one-byte header,  *)
(* and the cursor-driven decoder, as implemented in phased_in_codes.       *)
(* All integer fields are u8; arithmetic that leaves 0..255 panics in a    *)
(* build with overflow checks ("debug") and wraps in one without           *)
(* ("release").                                                            *)
(***************************************************************************)
EXTENDS Integers, Sequences, FiniteSets, TLC

\* ---------------------------------------------------------------- bounds
\* longest input byte sequence handed to encode_bytes
MaxLen == 2
\* longest raw bit sequence handed directly to decode_stream
MaxBits == 5
\* number of decoded bytes the allocator can hold before Vec::push aborts
MemoryLimit == 12

\* ------------------------------------------------------- program constants
\* u8::BITS (bitvec's BitMemory::BITS for u8)
BITS == 8
\* u8::MAX
U8_MAX == 255

Builds == {"debug", "release"}
U8 == 0..U8_MAX
Bit == {0, 1}

VARIABLES
  pc,               \* position of the driver (test harness or main)
  build,            \* "debug": overflow checks on, "release": wrapping
  arg,              \* the NUM_SYMBOLS command-line value, before u8 parsing
  params,           \* PhasedInParams
  input,            \* bytes handed to encode_bytes (input_contents)
  encoded_symbols,  \* Encoder.encoded_symbols
  stream,           \* EncodedStream.stream (a bit sequence, Msb0)
  capacity,         \* capacity in bits of the BitVec behind stream
  file,             \* the serialized buffer write_to_file produces
  cursor,           \* decode_stream's cursor
  decoded_bytes     \* decode_stream's output vector

vars == <<pc, build, arg, params, input, encoded_symbols, stream, capacity,
          file, cursor, decoded_bytes>>

\* ------------------------------------------------------------- arithmetic
Pow2(n) == 2 ^ n

Fits8(x) == x \in U8

Wrap8(x) == x % (U8_MAX + 1)

\* the eight bits of a byte, most significant first (view_bits::<Msb0>)
view_bits(x) == [i \in 1..BITS |-> (x \div Pow2(BITS - i)) % 2]

\* bitwise AND of two bytes
BitAnd(a, b) ==
  LET A == view_bits(a)
      B == view_bits(b)
      W[i \in 0..BITS] == IF i = 0 THEN 0 ELSE 2 * W[i - 1] + A[i] * B[i]
  IN W[BITS]

\* a << 1 on u8: the top bit is shifted out
Shl1(a) == (2 * a) % (U8_MAX + 1)

\* ------------------------------------------------------------ common.rs
NoParams == [num_symbols |-> 0, m |-> 0, p |-> 0, P |-> 0]

\* base2's floor_log2 on a non-zero u8
floor_log2(n) == CHOOSE k \in 0..(BITS - 1) : Pow2(k) <= n /\ n < Pow2(k + 1)

\* the derivation with P left at 2^m, not reduced by p
raw_params_threshold_not_reduced(num_symbols) ==
  LET m == floor_log2(num_symbols)
      p == num_symbols - Pow2(m)
      P == Pow2(m)
  IN [num_symbols |-> num_symbols, m |-> m, p |-> p, P |-> P]

\* the three values PhasedInParams::new computes, before they are stored in u8
raw_params(num_symbols) ==
  LET m == floor_log2(num_symbols)
      p == num_symbols - Pow2(m)
      P == Pow2(m) - p
  IN [num_symbols |-> num_symbols, m |-> m, p |-> p, P |-> P]

params_overflow(num_symbols) ==
  LET r == raw_params(num_symbols)
  IN ~(Fits8(Pow2(r.m)) /\ Fits8(r.p) /\ Fits8(r.P))

PhasedInParams_new(num_symbols) ==
  LET r == raw_params(num_symbols)
  IN [num_symbols |-> num_symbols, m |-> r.m, p |-> Wrap8(r.p), P |-> Wrap8(r.P)]

\* ------------------------------------------------------------ encoder.rs
EncodedSymbol_new(symbol, num_bits_encoded) ==
  [symbol |-> symbol, num_bits_encoded |-> num_bits_encoded]

\* `mask >>= u8::BITS - m` shifts a u8 by 8 when m = 0
mask_shift_overflows(prm) == BITS - prm.m >= BITS

\* !0u8 >> (8 - m); without overflow checks the shift amount is taken mod 8
encode_mask(prm) == U8_MAX \div Pow2((BITS - prm.m) % BITS)

\* the long branch without the `P +` that lifts its prefix above the short codes
encode_symbol_without_offset(prm, symbol) ==
  LET mask == encode_mask(prm)
  IN IF symbol >= prm.P
       THEN LET base == BitAnd(Wrap8((symbol - prm.P) \div 2), mask)
                low == (symbol - prm.P) % 2
            IN EncodedSymbol_new(Shl1(base) + low, prm.m + 1)
       ELSE EncodedSymbol_new(BitAnd(symbol, mask), prm.m)

\* Encoder::encode_symbol, its mask shift having gone through
encode_symbol(prm, symbol) ==
  LET mask == encode_mask(prm)
  IN IF symbol >= prm.P
       THEN LET base == BitAnd(Wrap8(prm.P + ((symbol - prm.P) \div 2)), mask)
                low == (symbol - prm.P) % 2
            IN EncodedSymbol_new(Shl1(base) + low, prm.m + 1)
       ELSE EncodedSymbol_new(BitAnd(symbol, mask), prm.m)

\* the table compute_encoded_symbols pushes, one entry per symbol 0..N-1
symbol_table(prm) == [i \in 1..prm.num_symbols |-> encode_symbol(prm, i - 1)]

\* the low num_bits_encoded bits of the symbol, most significant first
to_bitvec(es) ==
  LET start == BITS - es.num_bits_encoded
  IN SubSeq(view_bits(es.symbol), start + 1, BITS)

\* EncodedStream::new: the fold that appends every symbol's bits in order
RECURSIVE concat_bits(_)
concat_bits(symbols) ==
  IF symbols = <<>> THEN <<>>
  ELSE to_bitvec(Head(symbols)) \o concat_bits(Tail(symbols))

\* BitVec::with_capacity(symbols.len() * 8); no symbol has more than 8 bits,
\* so the fold never reallocates
stream_capacity(symbols) == Len(symbols) * BITS

\* EncodedStream::new(symbols)
EncodedStream_new(symbols) ==
  [stream |-> concat_bits(symbols), capacity |-> stream_capacity(symbols)]

\* the table lookups of encode_bytes: encoded_symbols[*b as usize] for every byte
lookup_in_bounds(table, bytes) == \A i \in 1..Len(bytes) : bytes[i] < Len(table)

encode_bytes(table, bytes) ==
  EncodedStream_new([i \in 1..Len(bytes) |-> table[bytes[i] + 1]])

\* res <<= 1; res |= bit, over the slice from left to right
RECURSIVE byte_from_bitslice(_)
byte_from_bitslice(bits) ==
  IF bits = <<>> THEN 0
  ELSE LET n == Len(bits)
       IN Shl1(byte_from_bitslice(SubSeq(bits, 1, n - 1))) + bits[n]

\* the bytes that hold the live bits (BitVec::as_slice); `pad` is what the
\* allocation holds in the unused low bits of the last byte
as_slice(bits, pad) ==
  LET all == bits \o pad
  IN [i \in 1..(Len(all) \div BITS) |->
        byte_from_bitslice(SubSeq(all, BITS * (i - 1) + 1, BITS * i))]

pad_len(bits) == (BITS - (Len(bits) % BITS)) % BITS

\* (self.stream.capacity() - self.stream.len()) as u8
num_bits_unused(cap, bits) == (cap - Len(bits)) % (U8_MAX + 1)

\* the buffer write_to_file writes: the header byte, then the payload
serialized(cap, bits, pad) == <<num_bits_unused(cap, bits)>> \o as_slice(bits, pad)

\* BitSlice::from_slice_unchecked(&bytes[1..]): eight bits per byte, Msb0
RECURSIVE bits_of_bytes(_)
bits_of_bytes(bytes) ==
  IF bytes = <<>> THEN <<>>
  ELSE view_bits(Head(bytes)) \o bits_of_bytes(Tail(bytes))

\* (bytes.len() - 1) * 8 - bytes[0], before it is stored in usize
num_used_bits(bytes) == (Len(bytes) - 1) * BITS - bytes[1]

from_encoded_bytes(bytes) ==
  SubSeq(bits_of_bytes(Tail(bytes)), 1, num_used_bits(bytes))

\* ------------------------------------------------------------ decoder.rs
\* the long branch without the doubling that undoes the encoder's halving
decode_long_without_doubling(prm, symbol, next_bit) ==
  prm.P + (symbol - prm.P) + next_bit

\* self.params.P + ((symbol - self.params.P) * 2) + next_bit, before it is stored in u8
decode_long(prm, symbol, next_bit) == prm.P + ((symbol - prm.P) * 2) + next_bit

\* --------------------------------------------------------------- inputs
\* the symbols input bytes are drawn from: both ends of the alphabet, the last
\* short symbol and the first two long ones (one of each trailing bit)
SampleSymbols(prm) ==
  {0, prm.P - 1, prm.P, prm.P + 1, prm.num_symbols - 1} \cap 0..(prm.num_symbols - 1)

SeqsUpTo(S, n) == UNION {[1..k -> S] : k \in 0..n}

Inputs(prm) == SeqsUpTo(SampleSymbols(prm), MaxLen)

BitSeqs == SeqsUpTo(Bit, MaxBits)

\* ----------------------------------------------------------------- state
Blank ==
  /\ build \in Builds
  /\ params = NoParams
  /\ input = <<>>
  /\ encoded_symbols = <<>>
  /\ stream = <<>>
  /\ capacity = 0
  /\ file = <<>>
  /\ cursor = 0
  /\ decoded_bytes = <<>>

\* a caller of the library (the crate's tests): num_symbols is a u8
Init == pc = "params" /\ arg \in U8 /\ Blank

\* PhasedInParams::new(num_symbols); floor_log2(0) is outside its domain
ParamsNewAt(from, to) ==
  /\ pc = from
  /\ IF arg = 0
       THEN pc' = "params_undefined" /\ UNCHANGED params
       ELSE IF params_overflow(arg) /\ build = "debug"
              THEN pc' = "panic" /\ UNCHANGED params
              ELSE pc' = to /\ params' = PhasedInParams_new(arg)
  /\ UNCHANGED <<build, arg, input, encoded_symbols, stream, capacity, file,
                 cursor, decoded_bytes>>

ParamsNew == ParamsNewAt("params", "encoder_new")

\* Encoder::new(params): an empty table with capacity num_symbols
EncoderNewAt(from, to) ==
  /\ pc = from
  /\ encoded_symbols' = <<>>
  /\ pc' = to
  /\ UNCHANGED <<build, arg, params, input, stream, capacity, file, cursor,
                 decoded_bytes>>

EncoderNew == EncoderNewAt("encoder_new", "compute")

\* Encoder::compute_encoded_symbols: the whole loop over 0..num_symbols
ComputeEncodedSymbols ==
  /\ pc = "compute"
  /\ IF build = "debug" /\ params.num_symbols > 0 /\ mask_shift_overflows(params)
       THEN pc' = "panic" /\ UNCHANGED encoded_symbols
       ELSE pc' = "encode" /\ encoded_symbols' = encoded_symbols \o symbol_table(params)
  /\ UNCHANGED <<build, arg, params, input, stream, capacity, file, cursor,
                 decoded_bytes>>

\* Encoder::encode_bytes(bytes): index the table, then EncodedStream::new
EncodeBytesAt(from, to, bytes) ==
  /\ pc = from
  /\ input' = bytes
  /\ IF lookup_in_bounds(encoded_symbols, bytes)
       THEN LET es == encode_bytes(encoded_symbols, bytes)
            IN stream' = es.stream /\ capacity' = es.capacity /\ pc' = to
       ELSE pc' = "panic" /\ UNCHANGED <<stream, capacity>>
  /\ UNCHANGED <<build, arg, params, encoded_symbols, file, cursor, decoded_bytes>>

EncodeBytes == \E bytes \in Inputs(params) : EncodeBytesAt("encode", "encoded", bytes)

\* EncodedStream::write_to_file
WriteToFileAt(from, to) ==
  /\ pc = from
  /\ \E pad \in [1..pad_len(stream) -> Bit] :
       file' = serialized(capacity, stream, pad)
  /\ pc' = to
  /\ UNCHANGED <<build, arg, params, input, encoded_symbols, stream, capacity,
                 cursor, decoded_bytes>>

WriteToFile == WriteToFileAt("encoded", "written")

\* Decoder::decode_stream on the stream encode_bytes returned: the loop's entry
DecodeStream ==
  /\ pc = "encoded"
  /\ cursor' = 0
  /\ decoded_bytes' = <<>>
  /\ pc' = "decode_loop"
  /\ UNCHANGED <<build, arg, params, input, encoded_symbols, stream, capacity, file>>

\* Decoder::decode_bytes(bytes): from_encoded_bytes, then decode_stream's entry.
\* bytes[0] of an empty buffer panics. A subtraction below zero panics with
\* overflow checks; without them the length wraps and set_len is called past
\* the allocation, after which nothing is defined.
DecodeBytesAt(from, bytes) ==
  /\ pc = from
  /\ IF bytes = <<>>
       THEN /\ pc' = "panic"
            /\ UNCHANGED <<stream, capacity, cursor, decoded_bytes>>
       ELSE IF num_used_bits(bytes) >= 0
         THEN /\ stream' = from_encoded_bytes(bytes)
              /\ capacity' = (Len(bytes) - 1) * BITS
              /\ cursor' = 0
              /\ decoded_bytes' = <<>>
              /\ pc' = "decode_loop"
         ELSE /\ pc' = IF build = "debug" THEN "panic" ELSE "undefined"
              /\ UNCHANGED <<stream, capacity, cursor, decoded_bytes>>
  /\ UNCHANGED <<build, arg, params, input, encoded_symbols, file>>

DecodeBytes == DecodeBytesAt("written", file)

\* decoded_bytes.push(byte); the allocator gives up at MemoryLimit bytes
Push(byte, new_cursor) ==
  IF Len(decoded_bytes) >= MemoryLimit
    THEN pc' = "out_of_memory" /\ UNCHANGED <<cursor, decoded_bytes>>
    ELSE /\ decoded_bytes' = Append(decoded_bytes, byte)
         /\ cursor' = new_cursor
         /\ pc' = "decode_loop"

\* one test of `cursor != bits.len()` and, when it holds, one iteration
DecodeStep ==
  /\ pc = "decode_loop"
  /\ LET n == Len(stream)
         after_m == cursor + params.m
     IN IF cursor = n
          THEN pc' = "done" /\ UNCHANGED <<cursor, decoded_bytes>>
          ELSE IF after_m > n
            THEN pc' = "panic" /\ UNCHANGED <<cursor, decoded_bytes>>
            ELSE LET symbol == byte_from_bitslice(SubSeq(stream, cursor + 1, after_m))
                 IN IF symbol >= params.P
                      THEN IF after_m >= n
                        THEN pc' = "panic" /\ UNCHANGED <<cursor, decoded_bytes>>
                        ELSE LET d == decode_long(params, symbol, stream[after_m + 1])
                             IN IF ~Fits8(d) /\ build = "debug"
                                  THEN pc' = "panic" /\ UNCHANGED <<cursor, decoded_bytes>>
                                  ELSE Push(Wrap8(d), after_m + 1)
                      ELSE Push(symbol, after_m)
  /\ UNCHANGED <<build, arg, params, input, encoded_symbols, stream, capacity, file>>

\* Cli::from_args().expect("Cli is invalid"): u8::from_str rejects 256
MainCli ==
  /\ pc = "main_cli"
  /\ pc' = IF arg \in U8 THEN "main_params" ELSE "cli_invalid"
  /\ UNCHANGED <<build, arg, params, input, encoded_symbols, stream, capacity,
                 file, cursor, decoded_bytes>>

MainParamsNew == ParamsNewAt("main_params", "main_read")

\* fs::read(cli.input_file), then `match cli.action`
MainRead ==
  /\ pc = "main_read"
  /\ \E bytes \in Inputs(params) : input' = bytes
  /\ pc' \in {"main_compress", "main_decompress"}
  /\ UNCHANGED <<build, arg, params, encoded_symbols, stream, capacity, file,
                 cursor, decoded_bytes>>

\* Action::Compress: Encoder::new(params), then encode_bytes at once
MainEncoderNew == EncoderNewAt("main_compress", "main_encode")

MainEncodeBytes == EncodeBytesAt("main_encode", "main_encoded", input)

MainWriteToFile == WriteToFileAt("main_encoded", "main_done")

\* Action::Decompress: Decoder::new(params).decode_bytes(input_contents)
MainDecodeBytes == DecodeBytesAt("main_decompress", input)

\* a caller that builds a Decoder and hands decode_stream a stream of its own
DecParamsNew == ParamsNewAt("dec_params", "dec_stream")

DecodeRawStream ==
  /\ pc = "dec_stream"
  /\ \E bits \in BitSeqs : stream' = bits
  /\ capacity' = 0
  /\ cursor' = 0
  /\ decoded_bytes' = <<>>
  /\ pc' = "decode_loop"
  /\ UNCHANGED <<build, arg, params, input, encoded_symbols, file>>

NextTable == ParamsNew \/ EncoderNew \/ ComputeEncodedSymbols

\* the table alone: derive the parameters, build the encoder, fill its table
SpecTable == Init /\ [][NextTable]_vars

Next ==
  \/ ParamsNew
  \/ EncoderNew
  \/ ComputeEncodedSymbols
  \/ EncodeBytes
  \/ DecodeStream
  \/ DecodeStep

\* the library as decode_stream_works drives it: table, encode_bytes, then
\* decode_stream on the stream itself
Spec == Init /\ [][Next]_vars

NextFile ==
  \/ ParamsNew
  \/ EncoderNew
  \/ ComputeEncodedSymbols
  \/ EncodeBytes
  \/ WriteToFile
  \/ DecodeBytes
  \/ DecodeStep

\* the library through the persisted format: table, encode_bytes,
\* write_to_file, then decode_bytes on the written buffer
SpecFile == Init /\ [][NextFile]_vars

InitMain == pc = "main_cli" /\ arg \in 0..(U8_MAX + 1) /\ Blank

NextMain ==
  \/ MainCli
  \/ MainParamsNew
  \/ MainRead
  \/ MainEncoderNew
  \/ MainEncodeBytes
  \/ MainWriteToFile
  \/ MainDecodeBytes
  \/ DecodeStep

\* the binary: main() from the command line to the written output
SpecMain == InitMain /\ [][NextMain]_vars

InitDecode == pc = "dec_params" /\ arg \in U8 /\ Blank

NextDecode == DecParamsNew \/ DecodeRawStream \/ DecodeStep

\* decode_stream on an arbitrary bit sequence
SpecDecode == InitDecode /\ [][NextDecode]_vars

\* the loop of decode_stream is never suspended: a started iteration completes
FairSpecDecode == SpecDecode /\ WF_vars(DecodeStep)

\* ================================================================ claims
ValidN == 1..U8_MAX

Ended == {"done", "panic", "undefined", "out_of_memory"}

IsPrefix(x, y) == Len(x) <= Len(y) /\ \A i \in 1..Len(x) : x[i] = y[i]

\* the codeword the claims assign to symbol s: (s, m) below P, otherwise
\* (((P + (s - P) div 2) << 1) | ((s - P) mod 2), m + 1), over the integers
ReferenceCode(prm, s) ==
  IF s < prm.P
    THEN [symbol |-> s, num_bits_encoded |-> prm.m]
    ELSE [symbol |-> 2 * (prm.P + ((s - prm.P) \div 2)) + ((s - prm.P) % 2),
          num_bits_encoded |-> prm.m + 1]

\* the bit stream the claims expect of encode_bytes: the codewords in input order
ExpectedStream(prm, bytes) ==
  concat_bits([i \in 1..Len(bytes) |-> ReferenceCode(prm, bytes[i])])

\* the parameter identities of the data model, over the integers
ParamsIdentity(n, prm) ==
  /\ prm.num_symbols = n
  /\ prm.m \in 0..(BITS - 1) /\ prm.p \in U8 /\ prm.P \in U8
  /\ Pow2(prm.m) <= n /\ n < Pow2(prm.m + 1)
  /\ prm.p = n - Pow2(prm.m)
  /\ prm.P = Pow2(prm.m) - prm.p
  /\ prm.p + prm.P = Pow2(prm.m)
  /\ 0 <= prm.p /\ prm.p < Pow2(prm.m)
  /\ prm.P <= n
  /\ (n = 9 => prm.m = 3 /\ prm.p = 1 /\ prm.P = 7)

\* C1 (as claimed): for every N in 1..255 and every input with bytes < N, once
\* decode_bytes has been called on the buffer write_to_file wrote, it ends by
\* returning exactly the input.
C1_FileRoundTrip ==
  (arg \in ValidN /\ file # <<>> /\ pc \in Ended) =>
    (pc = "done" /\ decoded_bytes = input)

\* C2: for every N in 2..255 and every input with bytes < N, decode_stream on
\* the stream encode_bytes returned never reads out of range, keeps its cursor
\* within the bit sequence, has decoded a prefix of the input at every
\* iteration, and returns exactly the input with the cursor on the end.
C2_StreamRoundTrip ==
  arg \in 2..U8_MAX =>
    /\ pc \notin {"panic", "undefined", "out_of_memory"}
    /\ pc \in {"decode_loop", "done"} =>
         /\ cursor <= Len(stream)
         /\ Len(decoded_bytes) <= Len(input)
         /\ decoded_bytes = SubSeq(input, 1, Len(decoded_bytes))
         /\ (cursor = Len(stream) => decoded_bytes = input)
    /\ pc = "done" => (decoded_bytes = input /\ cursor = Len(stream))

\* a returned decode of an input that mixes a short and a long codeword
C2_Witness ==
  /\ pc = "done"
  /\ arg \in 2..U8_MAX
  /\ Len(input) = 2
  /\ input[1] >= params.P
  /\ input[2] < params.P
  /\ decoded_bytes = input
  /\ Len(stream) = 2 * params.m + 1

\* the codewords of a table, as the bits to_bitvec emits
Codewords(table) == [i \in 1..Len(table) |-> to_bitvec(table[i])]

PrefixFree(cw) ==
  \A a \in DOMAIN cw : \A b \in DOMAIN cw : a # b => ~IsPrefix(cw[a], cw[b])

\* symbols below P: m bits of value < P; from P on: m + 1 bits, the leading
\* m of value >= P (what the decoder's test `symbol >= P` relies on)
ClassesSeparated(cw, prm) ==
  \A a \in DOMAIN cw :
    IF a - 1 < prm.P
      THEN Len(cw[a]) = prm.m /\ byte_from_bitslice(cw[a]) < prm.P
      ELSE /\ Len(cw[a]) = prm.m + 1
           /\ byte_from_bitslice(SubSeq(cw[a], 1, prm.m)) >= prm.P

\* C3: in every table compute_encoded_symbols builds, no codeword is a prefix
\* of the codeword of another symbol; every codeword of a symbol below P has
\* m bits and value < P, and the leading m bits of every codeword of a symbol
\* from P on have value >= P.
C3_PrefixFree ==
  pc = "encode" =>
    /\ PrefixFree(Codewords(encoded_symbols))
    /\ ClassesSeparated(Codewords(encoded_symbols), params)

\* a built table that holds codewords of both lengths
C3_Witness ==
  /\ pc = "encode"
  /\ Len(encoded_symbols) = arg
  /\ params.P > 1
  /\ params.p > 1
  /\ encoded_symbols[1].num_bits_encoded = params.m
  /\ encoded_symbols[arg].num_bits_encoded = params.m + 1

\* C4 (as claimed): the header byte write_to_file writes is
\* (8 - (L mod 8)) mod 8, lies in 0..7, and the buffer is 1 + ceil(L / 8) long,
\* L being the stream's bit length.
C4_Padding ==
  pc = "written" =>
    LET L == Len(stream)
    IN /\ file[1] = (BITS - (L % BITS)) % BITS
       /\ file[1] \in 0..(BITS - 1)
       /\ Len(file) = 1 + ((L + BITS - 1) \div BITS)

\* C5 (as claimed): for every N in 1..256 PhasedInParams::new(N) returns
\* m = floor(log2 N), p = N - 2^m, P = 2^m - p, with p + P = 2^m,
\* 0 <= p < 2^m and P <= N.
C5_ParamsIdentityTo256 ==
  (arg \in 1..(U8_MAX + 1) /\ pc # "main_cli") =>
    /\ pc # "cli_invalid"
    /\ pc # "main_params" => ParamsIdentity(arg, params)

\* C5 (amended): for every N in 1..255, the values a u8 num_symbols can take,
\* PhasedInParams::new(N) returns m = floor(log2 N), p = N - 2^m, P = 2^m - p
\* in its u8 fields without overflow, with p + P = 2^m, 0 <= p < 2^m and
\* P <= N; N = 9 gives (3, 1, 7).
C5_ParamsIdentity ==
  (arg \in ValidN /\ pc \notin {"main_cli", "main_params"}) =>
    ParamsIdentity(arg, params)

\* the parameters of the crate's own test, derived
C5_Witness ==
  /\ pc = "main_read"
  /\ arg = 9
  /\ params = [num_symbols |-> 9, m |-> 3, p |-> 1, P |-> 7]

\* C6 (as claimed): for every N in 1..255, compute_encoded_symbols builds a
\* table that holds at index s the reference pair of s, whose length is m or
\* m + 1.
C6_ReferenceRule ==
  (arg \in ValidN /\ pc \notin {"params", "encoder_new", "compute"}) =>
    /\ pc = "encode"
    /\ Len(encoded_symbols) = arg
    /\ \A s \in 0..(arg - 1) :
         /\ encoded_symbols[s + 1] = ReferenceCode(params, s)
         /\ encoded_symbols[s + 1].num_bits_encoded \in {params.m, params.m + 1}

\* C7 (as claimed): for every N in 1..255, of the N symbols
\* compute_encoded_symbols encodes, exactly the indices 0..P-1 get m bits and
\* exactly the indices P..N-1 get m + 1 bits, p of them.
C7_LengthSplit ==
  (arg \in ValidN /\ pc \notin {"params", "encoder_new", "compute"}) =>
    /\ pc = "encode"
    /\ Len(encoded_symbols) = arg
    /\ \A s \in 0..(arg - 1) :
         encoded_symbols[s + 1].num_bits_encoded =
           IF s < params.P THEN params.m ELSE params.m + 1
    /\ Cardinality({s \in 0..(arg - 1) :
                      encoded_symbols[s + 1].num_bits_encoded = params.m + 1})
         = params.p

\* C8 (as claimed): for every N in 1..255 and every symbol < N, the length
\* encode_symbol returns is at least 1 and at most 9, and to_bitvec emits
\* exactly that many bits.
C8_LengthBounds ==
  (arg \in ValidN /\ pc = "encode") =>
    /\ Len(encoded_symbols) = arg
    /\ \A s \in 0..(arg - 1) :
         /\ encoded_symbols[s + 1].num_bits_encoded \in 1..(BITS + 1)
         /\ Len(to_bitvec(encoded_symbols[s + 1]))
              = encoded_symbols[s + 1].num_bits_encoded

\* C9 (as claimed): for every N in 1..255 and every bit sequence, each
\* iteration of decode_stream's loop strictly advances the cursor.
C9_CursorAdvances ==
  [][(arg \in ValidN /\ pc = "decode_loop" /\ pc' = "decode_loop")
       => cursor' > cursor]_vars

\* C10 (as claimed): in main's Compress arm, for every non-empty input with
\* bytes < N, encode_bytes finds every table lookup in bounds and returns the
\* concatenation of the codewords of the input bytes.
C10_CompressEncodes ==
  [][(arg \in ValidN /\ pc = "main_encode" /\ input # <<>>)
       => (pc' = "main_encoded" /\ stream' = ExpectedStream(params, input))]_vars

\* ------------------------------------------------- the code's actual reach
\* where the table is built at all, it is the reference table (C6, C7 and the
\* upper bound of C8 fail only where compute_encoded_symbols panics or N = 1)
TableIsReferenceWhereBuilt ==
  pc = "encode" =>
    /\ Len(encoded_symbols) = arg
    /\ \A s \in 0..(arg - 1) :
         /\ encoded_symbols[s + 1] = ReferenceCode(params, s)
         /\ encoded_symbols[s + 1].num_bits_encoded =
              IF s < params.P THEN params.m ELSE params.m + 1
         /\ Len(to_bitvec(encoded_symbols[s + 1]))
              = encoded_symbols[s + 1].num_bits_encoded
         /\ (arg >= 2 => encoded_symbols[s + 1].num_bits_encoded \in 1..BITS)

\* compute_encoded_symbols panics only for N = 1 with overflow checks
TablePanicsOnlyForOneSymbol ==
  (pc = "panic" /\ arg \in ValidN) => (arg = 1 /\ build = "debug")

\* the header write_to_file writes is 8 * (number of input bytes) - L, mod 256
HeaderIsCapacityMinusLength ==
  pc = "written" =>
    file[1] = (BITS * Len(input) - Len(stream)) % (U8_MAX + 1)

\* with two symbols or more the loop advances the cursor at every iteration
CursorAdvancesFromTwoSymbols ==
  [][(arg \in 2..U8_MAX /\ pc = "decode_loop" /\ pc' = "decode_loop")
       => cursor' > cursor]_vars

\* and, its loop never suspended, decode_stream ends: it returns or panics
DecodeEndsFromTwoSymbols ==
  (arg \in 2..U8_MAX /\ pc = "decode_loop") ~> (pc \in {"done", "panic"})

====
